---- MODULE Spec2Model ----
(***************************************************************************)
(* Model of the Group Load Kafka tool: the shared configuration object     *)
(* (config.py), record validation (models.py), the Kafka producer wrapper  *)
(* and the streaming facade (kafka_producer.py), and the call sites that   *)
(* own a streamer (main.py, cli.py).                                       *)
(*                                                                         *)
(* The confluent_kafka client is an external collaborator.  It is modelled *)
(* by its log of produce() calls: every call is one entry whose status is  *)
(* "rejected" (produce() raised, nothing was queued), "pending" (queued,   *)
(* not yet resolved), "acked" (delivery callback ran with err = None) or   *)
(* "failed" (delivery callback ran with an error).  flush(timeout) serves  *)
(* callbacks for any of the pending messages; flush() without a timeout    *)
(* returns only when none is pending.                                      *)
(***************************************************************************)
EXTENDS Integers, Sequences, FiniteSets, TLC

\* ---------------------------------------------------------------- bounds
MaxBatch == 2      \* longest batch handed to stream_batch_data
MaxOps == 2        \* API calls made on one streamer in the library harness
MaxMsgs == 3       \* produce() calls one client receives in a behaviour

\* ------------------------------------------------------------ config.py
DevTopic == "gcp.pss.groupfl.mypbmcaa.dev.groupdetails"
QaTopic == "gcp.pss.groupfl.mypbmcaa.qa.groupdetails"

\* values a caller may try to make the active environment
EnvValues == {"dev", "qa", "prod"}

\* the values the field's Literal type declares
DeclaredEnvs == {"dev", "qa"}

\* the values click.Choice lets through on the command line
CliChoices == {"dev", "qa"}

\* KafkaConfig.current_topic
CurrentTopic(e) == IF e = "dev" THEN DevTopic ELSE QaTopic

\* ------------------------------------------------------------ models.py
GroupIds == {"g1", "g2"}
GidAbsent == "<absent>"          \* the raw map has no group_id key
GidUnhashable == "<list>"        \* group_id is present but is a list
Sentinel == "unknown"

\* A raw element of a batch.  map: it is a key/value map; gid: its group_id;
\* req: group_name, group_type and effective_date are present strings;
\* members: the shape of its members field: "ok" a well-formed list, "empty"
\* an empty list, "dup" a list with a repeated member_id, "missing" no
\* members key at all.
Rec(m, g, r, mem) == [map |-> m, gid |-> g, req |-> r, members |-> mem]

RawRecords ==
    { Rec(TRUE, "g1", TRUE, "ok"),
      Rec(TRUE, "g2", TRUE, "ok"),
      Rec(TRUE, "g1", TRUE, "missing"),
      Rec(TRUE, GidAbsent, TRUE, "ok"),
      Rec(TRUE, GidUnhashable, TRUE, "ok"),
      Rec(FALSE, GidAbsent, FALSE, "missing") }

\* a model that requires at least one member
ValidatesNonEmptyMembers(r) ==
    /\ r.map
    /\ r.gid \in GroupIds
    /\ r.req
    /\ r.members \in {"ok", "dup"}

\* GroupDetails(**raw) succeeds: raw is a mapping, the required fields are
\* present with their types (group_id: str, members: List[GroupMember]).
\* The model declares no constraint on the length of members nor on the
\* member_id values.
Validates(r) ==
    /\ r.map
    /\ r.gid \in GroupIds
    /\ r.req
    /\ r.members \in {"ok", "empty", "dup"}

ValidRecords == { r \in RawRecords : Validates(r) }

\* ------------------------------------------------- the broker client's log
Statuses == {"rejected", "pending", "acked", "failed"}

PendingIdx(ms) == { i \in 1..Len(ms) : ms[i].status = "pending" }

\* what one flush call may do to the pending messages: with a timeout each
\* may stay pending; without one each is resolved before flush returns
FlushChoices(ms, blocking) ==
    [PendingIdx(ms) -> IF blocking THEN {"acked", "failed"}
                                   ELSE {"pending", "acked", "failed"}]

\* Producer.flush: serve the delivery callbacks chosen by f
Flush(ms, f) ==
    [i \in 1..Len(ms) |->
        IF i \in DOMAIN f THEN [ms[i] EXCEPT !.status = f[i]] ELSE ms[i]]

\* ----------------------------------------- GroupLoadKafkaProducer
\* A message identifier is a string, written as the sequence of its
\* characters.  The message_id argument of produce_group_message is
\* Optional[str]: NoArg is None, Given(s) the string s.
NoArg == [given |-> FALSE, s |-> <<>>]
Given(s) == [given |-> TRUE, s |-> s]

\* the arguments callers pass: None, the empty string, an ASCII string, a
\* string with a character outside ASCII ("eacute" stands for the single
\* character U+00E9)
MidArgs == { NoArg, Given(<<>>), Given(<<"m", "1">>), Given(<<"eacute">>) }

HexDigits == <<"1", "2", "3", "4", "5", "6", "7", "8", "9", "a", "b", "c",
               "d", "e", "f">>

\* str(uuid.uuid4()): the n-th value drawn, a fresh non-empty string
Uuid4(n) == <<"u", HexDigits[n]>>

GeneratedIds == { Uuid4(n) : n \in 1..Len(HexDigits) }

\* the UTF-8 bytes of one character
Utf8Char(c) ==
    CASE c = "u" -> <<117>>
      [] c = "m" -> <<109>>
      [] c = "eacute" -> <<195, 169>>
      [] c \in {"1", "2", "3", "4", "5", "6", "7", "8", "9"} ->
             <<48 + CHOOSE d \in 1..9 : HexDigits[d] = c>>
      [] OTHER -> <<96 + CHOOSE d \in 1..6 : HexDigits[9 + d] = c>>

\* str.encode('utf-8')
RECURSIVE Utf8(_)
Utf8(str) == IF str = <<>> THEN <<>>
             ELSE Utf8Char(Head(str)) \o Utf8(Tail(str))

\* a producer that ignores the caller's identifier
MessageIdAlwaysFresh(arg, n) == Uuid4(n)

\* if not message_id: message_id = str(uuid.uuid4()); None and the empty
\* string are both falsy
MessageId(arg, n) ==
    IF (~arg.given) \/ arg.s = <<>> THEN Uuid4(n) ELSE arg.s

\* the envelope and the arguments of producer.produce()
NewMessage(topic, env, gd, mid) ==
    [topic |-> topic, key |-> Utf8(mid), env |-> env, mid |-> mid,
     gid |-> gd.gid, rec |-> gd, status |-> "pending"]

\* produce_group_message when producer.produce() raises: the exception is
\* caught, flush is not reached, the result is False
ProduceRaises(ms, topic, env, gd, mid) ==
    [msgs |-> Append(ms, [NewMessage(topic, env, gd, mid)
                             EXCEPT !.status = "rejected"]),
     flushed |-> 0,
     ret |-> FALSE]

\* produce_group_message when producer.produce() queues the message: flush
\* (timeout=10) follows, its return value is dropped, and the delivery
\* callback only logs; the result is True
ProduceQueues(ms, topic, env, gd, mid, f) ==
    [msgs |-> Flush(Append(ms, NewMessage(topic, env, gd, mid)), f),
     flushed |-> 1,
     ret |-> TRUE]

\* every outcome of one produce_group_message call
ProduceOutcomes(ms, topic, env, gd, mid) ==
    { ProduceRaises(ms, topic, env, gd, mid) } \cup
    { ProduceQueues(ms, topic, env, gd, mid, f) :
        f \in FlushChoices(Append(ms, NewMessage(topic, env, gd, mid)), FALSE) }

\* ------------------------------------------------------ GroupLoadStreamer
\* a streamer that publishes without looking at the validation result
PublishAttemptsUnguarded(ms, topic, env, r, mid) ==
    ProduceOutcomes(ms, topic, env, r, mid)

\* try: GroupDetails(**r); produce_group_message(...): the publisher is
\* called only when the constructor returned; when it raised, control is in
\* the except handler and the client is left alone
PublishAttempts(ms, topic, env, r, mid) ==
    IF Validates(r)
    THEN ProduceOutcomes(ms, topic, env, r, mid)
    ELSE { [msgs |-> ms, flushed |-> 0, ret |-> FALSE] }

EmptyMap == [k \in {} |-> FALSE]

\* results[k] = v on a Python dict
Put(res, k, v) == [x \in (DOMAIN res) \cup {k} |-> IF x = k THEN v ELSE res[x]]

\* a handler that files every failed record under the sentinel
RawKeyAlwaysSentinel(r) == Sentinel

\* group_data.get('group_id', 'unknown')
RawKey(r) == IF r.gid = GidAbsent THEN Sentinel ELSE r.gid

\* the statement of the except handler of stream_batch_data itself raises:
\* the element has no .get (it is no mapping), or the value it returns
\* cannot be used as a dict key
HandlerRaises(r) == (~r.map) \/ r.gid = GidUnhashable

\* the result-map effect of one iteration of the loop of stream_batch_data,
\* given what produce_group_message returned when it was called
IterResult(res, r, pubRet) ==
    IF Validates(r)
    THEN [raised |-> FALSE, wrote |-> TRUE, key |-> r.gid, val |-> pubRet,
          results |-> Put(res, r.gid, pubRet)]
    ELSE IF HandlerRaises(r)
    THEN [raised |-> TRUE, wrote |-> FALSE, key |-> Sentinel, val |-> FALSE,
          results |-> res]
    ELSE [raised |-> FALSE, wrote |-> TRUE, key |-> RawKey(r), val |-> FALSE,
          results |-> Put(res, RawKey(r), FALSE)]

Batches == UNION { [1..n -> RawRecords] : n \in 0..MaxBatch }

\* ------------------------------------------------------------------ state
VARIABLES
    environment,  \* config.environment, the module-level config object
    streamer,     \* the GroupLoadStreamer: made, the topic it captured, the
                  \* environment that topic was read under, and client:
                  \* its producer attribute refers to a broker client
    msgs,         \* the broker client's log of produce() calls
    flushes,      \* number of flush calls the broker client received
    nextUuid,     \* the next uuid4 value
    pc,           \* position of the caller
    batch,        \* argument of the running stream_batch_data call
    idx,          \* loop position in batch (1-based)
    results,      \* the results dict of the running / last batch call
    writes,       \* log of the writes to results, in order
    last,         \* what the last finished streamer call was and returned
    base,         \* Len(msgs) when the running / last batch call started
    closeCalls,   \* number of close() calls made on the streamer
    closeLog,     \* Len(msgs) when close() first returned, and the number
                  \* of flush calls made by close()
    ops,          \* number of calls made by the library harness
    site,         \* which call site runs: "api", "main", "send_sample", ...
    exitCode,     \* exit status of the call site, -1 while it runs
    perm,         \* two runs of stream_batch_data on a batch and a
                  \* permutation of it
    midArg        \* the message_id argument of the last direct
                  \* produce_group_message call

vars == <<environment, streamer, msgs, flushes, nextUuid, pc, batch, idx,
          results, writes, last, base, closeCalls, closeLog, ops, site,
          exitCode, perm, midArg>>

\* op: the call; ok: its boolean result; raised: an exception left it;
\* valid: its record validated; msg: the index in msgs of the message it
\* produced (0: none); status: that message's status when the call returned
Last(op, ok, raised, valid, msg, status) ==
    [op |-> op, ok |-> ok, raised |-> raised, valid |-> valid, msg |-> msg,
     status |-> status]

NoLast == Last("none", FALSE, FALSE, FALSE, 0, "none")
\* before the two runs: no input drawn
NoPerm == [done |-> FALSE, a |-> <<>>, p |-> <<>>, beh |-> <<>>]

InitCommon ==
    /\ environment = "dev"
    /\ streamer = [made |-> FALSE, topic |-> "", env |-> "", client |-> FALSE]
    /\ msgs = <<>>
    /\ flushes = 0
    /\ nextUuid = 1
    /\ batch = <<>>
    /\ idx = 1
    /\ results = EmptyMap
    /\ writes = <<>>
    /\ last = NoLast
    /\ base = 0
    /\ closeCalls = 0
    /\ closeLog = [msgs |-> 0, flushes |-> 0]
    /\ ops = 0
    /\ exitCode = -1
    /\ midArg = NoArg

\* ------------------------------------------------- operations on the state
\* assignment to config.environment: the settings class does not validate
\* assignments, any value is stored
SetEnvironment(e) ==
    /\ environment' = e

\* GroupLoadKafkaProducer.produce_group_message(gd, arg), called on the
\* producer directly with a GroupDetails object
ProduceGroupMessage(gd, arg) ==
    /\ streamer.made
    /\ \E o \in ProduceOutcomes(msgs, streamer.topic, environment, gd,
                                  MessageId(arg, nextUuid)) :
         /\ msgs' = o.msgs
         /\ flushes' = flushes + o.flushed
         /\ last' = Last("produce_group_message", o.ret, FALSE, TRUE,
                         Len(o.msgs), o.msgs[Len(o.msgs)].status)
    /\ nextUuid' = IF MessageId(arg, nextUuid) = Uuid4(nextUuid)
                   THEN nextUuid + 1 ELSE nextUuid
    /\ midArg' = arg

\* the loop of produce_batch_messages from position i on: each element
\* gets message_id = str(uuid.uuid4()), n being the next value to draw, and
\* produce_group_message(gd, message_id); sts[i] is the status the broker
\* leaves the i-th message in when its flush returns, the older pending
\* messages staying pending; acc holds msgs, the number of flush calls and
\* the results dict
RECURSIVE ProduceBatchFrom(_, _, _, _, _, _, _)
ProduceBatchFrom(acc, gds, i, n, topic, env, sts) ==
    IF i > Len(gds) THEN acc
    ELSE LET mid == MessageId(Given(Uuid4(n)), n + 1)
             o == IF sts[i] = "rejected"
                  THEN ProduceRaises(acc.msgs, topic, env, gds[i], mid)
                  ELSE ProduceQueues(acc.msgs, topic, env, gds[i], mid,
                                     [j \in {Len(acc.msgs) + 1} |-> sts[i]])
         IN  ProduceBatchFrom([msgs |-> o.msgs,
                               flushed |-> acc.flushed + o.flushed,
                               results |-> Put(acc.results, mid, o.ret)],
                              gds, i + 1, n + 1, topic, env, sts)

\* GroupLoadKafkaProducer.produce_batch_messages(gds)
ProduceBatchMessages(gds, sts) ==
    /\ streamer.made
    /\ LET out == ProduceBatchFrom([msgs |-> msgs, flushed |-> 0,
                                    results |-> EmptyMap],
                                   gds, 1, nextUuid, streamer.topic,
                                   environment, sts)
       IN  /\ msgs' = out.msgs
           /\ flushes' = flushes + out.flushed
           /\ nextUuid' = nextUuid + Len(gds)
           /\ last' = Last("produce_batch_messages",
                           \A k \in DOMAIN out.results : out.results[k],
                           FALSE, TRUE, Len(out.msgs), "none")

\* GroupLoadStreamer() -> GroupLoadKafkaProducer(): the topic is read from
\* the config once, here
Construct ==
    /\ streamer' = [made |-> TRUE, topic |-> CurrentTopic(environment),
                    env |-> environment, client |-> TRUE]

\* GroupLoadStreamer.stream_group_data(r)
StreamGroupData(r) ==
    /\ streamer.made
    /\ \E o \in PublishAttempts(msgs, streamer.topic, environment, r,
                                  MessageId(NoArg, nextUuid)) :
         LET sent == Len(o.msgs) > Len(msgs) IN
         /\ msgs' = o.msgs
         /\ flushes' = flushes + o.flushed
         /\ nextUuid' = IF sent THEN nextUuid + 1 ELSE nextUuid
         /\ last' = Last("stream_group_data", o.ret, FALSE, Validates(r),
                         IF sent THEN Len(o.msgs) ELSE 0,
                         IF sent THEN o.msgs[Len(o.msgs)].status ELSE "none")

\* stream_batch_data(b): results = {} and the loop is entered
BatchStart(b) ==
    /\ streamer.made
    /\ batch' = b
    /\ idx' = 1
    /\ results' = EmptyMap
    /\ writes' = <<>>
    /\ base' = Len(msgs)
    /\ last' = Last("running", FALSE, FALSE, FALSE, 0, "none")

\* one iteration of the loop of stream_batch_data, on batch[idx]; when the
\* except handler raises, the exception leaves stream_batch_data
BatchStep ==
    /\ idx <= Len(batch)
    /\ LET r == batch[idx] IN
       \E o \in PublishAttempts(msgs, streamer.topic, environment, r,
                                MessageId(NoArg, nextUuid)) :
         LET it == IterResult(results, r, o.ret) IN
         /\ msgs' = o.msgs
         /\ flushes' = flushes + o.flushed
         /\ nextUuid' = IF Len(o.msgs) > Len(msgs) THEN nextUuid + 1
                                                  ELSE nextUuid
         /\ results' = it.results
         /\ writes' = IF it.wrote
                      THEN Append(writes, [i |-> idx, key |-> it.key,
                                           val |-> it.val])
                      ELSE writes
         /\ IF it.raised
            THEN /\ idx' = idx
                 /\ last' = Last("stream_batch_data", FALSE, TRUE, FALSE, 0,
                                 "none")
            ELSE /\ idx' = idx + 1
                 /\ last' = Last("running", FALSE, FALSE, FALSE, 0, "none")

\* stream_batch_data returns results
BatchReturn ==
    /\ idx > Len(batch)
    /\ last' = Last("stream_batch_data", TRUE, FALSE, FALSE, 0, "none")

\* GroupLoadStreamer.close() -> GroupLoadKafkaProducer.close():
\* producer.flush() with no timeout, then a log line; self.producer is
\* not reassigned, the streamer is left as it is
Close ==
    /\ streamer.made
    /\ \E f \in FlushChoices(msgs, TRUE) :
         /\ msgs' = Flush(msgs, f)
         /\ flushes' = flushes + 1
         /\ closeLog' = [msgs |-> IF closeCalls = 0 THEN Len(msgs)
                                                    ELSE closeLog.msgs,
                         flushes |-> closeLog.flushes + 1]
    /\ closeCalls' = closeCalls + 1

\* ------------------------------------------- Spec: a caller of the library
\* A caller that holds the config object and one streamer and makes up to
\* MaxOps calls on them, in any order.
Init ==
    /\ InitCommon
    /\ site = "api"
    /\ perm = NoPerm
    /\ pc = "start"

ApiSetEnvironment ==
    /\ pc \in {"start", "idle"}
    /\ ops < MaxOps
    /\ \E e \in EnvValues \ {environment} : SetEnvironment(e)
    /\ ops' = ops + 1
    /\ UNCHANGED <<streamer, msgs, flushes, nextUuid, pc, batch, idx, results,
                   writes, last, base, closeCalls, closeLog, site, exitCode,
                   perm, midArg>>

ApiConstruct ==
    /\ pc = "start"
    /\ Construct
    /\ pc' = "idle"
    /\ UNCHANGED <<environment, msgs, flushes, nextUuid, batch, idx, results,
                   writes, last, base, closeCalls, closeLog, ops, site,
                   exitCode, perm, midArg>>

ApiStreamGroupData ==
    /\ pc = "idle"
    /\ ops < MaxOps
    /\ Len(msgs) < MaxMsgs
    /\ \E r \in RawRecords : StreamGroupData(r)
    /\ ops' = ops + 1
    /\ UNCHANGED <<environment, streamer, pc, batch, idx, results, writes,
                   base, closeCalls, closeLog, site, exitCode, perm, midArg>>

ApiBatchStart ==
    /\ pc = "idle"
    /\ ops < MaxOps
    /\ \E b \in Batches :
         /\ Len(msgs) + Len(b) <= MaxMsgs
         /\ BatchStart(b)
    /\ pc' = "batch"
    /\ ops' = ops + 1
    /\ UNCHANGED <<environment, streamer, msgs, flushes, nextUuid,
                   closeCalls, closeLog, site, exitCode, perm, midArg>>

ApiBatchStep ==
    /\ pc = "batch"
    /\ BatchStep
    /\ pc' = IF last'.raised THEN "idle" ELSE "batch"
    /\ UNCHANGED <<environment, streamer, batch, base, closeCalls, closeLog,
                   ops, site, exitCode, perm, midArg>>

ApiBatchReturn ==
    /\ pc = "batch"
    /\ BatchReturn
    /\ pc' = "idle"
    /\ UNCHANGED <<environment, streamer, msgs, flushes, nextUuid, batch, idx,
                   results, writes, base, closeCalls, closeLog, ops, site,
                   exitCode, perm, midArg>>

ApiProduceGroupMessage ==
    /\ pc = "idle"
    /\ ops < MaxOps
    /\ Len(msgs) < MaxMsgs
    /\ \E gd \in ValidRecords, arg \in MidArgs : ProduceGroupMessage(gd, arg)
    /\ ops' = ops + 1
    /\ UNCHANGED <<environment, streamer, pc, batch, idx, results, writes,
                   base, closeCalls, closeLog, site, exitCode, perm>>

ApiProduceBatchMessages ==
    /\ pc = "idle"
    /\ ops < MaxOps
    /\ \E n \in 0..MaxBatch :
       \E gds \in [1..n -> ValidRecords], sts \in [1..n -> Statuses] :
         /\ Len(msgs) + n <= MaxMsgs
         /\ ProduceBatchMessages(gds, sts)
    /\ ops' = ops + 1
    /\ UNCHANGED <<environment, streamer, pc, batch, idx, results, writes,
                   base, closeCalls, closeLog, site, exitCode, perm, midArg>>

ApiClose ==
    /\ pc = "idle"
    /\ ops < MaxOps
    /\ Close
    /\ ops' = ops + 1
    /\ UNCHANGED <<environment, streamer, nextUuid, pc, batch, idx, results,
                   writes, last, base, site, exitCode, perm, midArg>>

Next ==
    \/ ApiSetEnvironment
    \/ ApiConstruct
    \/ ApiStreamGroupData
    \/ ApiBatchStart
    \/ ApiBatchStep
    \/ ApiBatchReturn
    \/ ApiClose

Spec == Init /\ [][Next]_vars

\* ------------------------------- SpecSites: main.py and the cli commands
\* Each call site builds one streamer and then runs
\*     try: <body>  except Exception: ...  finally: streamer.close()
\* pc: "cli" (the click group callback), "construct", "try" (in the body),
\* "batch" (in stream_batch_data, called from the body), "finally", "done".
Sites == {"main", "send_sample", "send_file"}

\* a try statement whose finally clause is skipped by sys.exit
AfterTrySkippedByExit(how) == IF how = "sysexit" THEN "done" ELSE "finally"

\* where control goes when it leaves the try statement, how being one of
\* "fallthrough", "return", "sysexit", "except": the finally clause runs on
\* fall-through, on return, on the SystemExit of sys.exit (which except
\* Exception does not catch) and after the except handler
AfterTry(how) == "finally"

\* number of stream_group_data calls in the body of main
MainExamples == 3

InitSites ==
    /\ InitCommon
    /\ site \in Sites
    /\ perm = NoPerm
    /\ pc = IF site = "main" THEN "construct" ELSE "cli"

\* cli(): config.environment = environment, a click.Choice value
SiteCli ==
    /\ pc = "cli"
    /\ \E e \in CliChoices : SetEnvironment(e)
    /\ pc' = "construct"
    /\ UNCHANGED <<streamer, msgs, flushes, nextUuid, batch, idx, results,
                   writes, last, base, closeCalls, closeLog, ops, site,
                   exitCode, perm, midArg>>

\* streamer = GroupLoadStreamer(), before the try statement; when the
\* constructor raises there is no streamer and the exception is not caught.
\* send_sample also builds its GroupDataGenerator (a Faker instance and two
\* list literals) between this line and the try statement; that
\* constructor is taken not to raise.
SiteConstruct ==
    /\ pc = "construct"
    /\ \/ /\ Construct
          /\ pc' = "try"
          /\ UNCHANGED exitCode
       \/ /\ pc' = "done"
          /\ exitCode' = 1
          /\ UNCHANGED streamer
    /\ UNCHANGED <<environment, msgs, flushes, nextUuid, batch, idx, results,
                   writes, last, base, closeCalls, closeLog, ops, site,
                   perm, midArg>>

\* success = streamer.stream_group_data(group.model_dump()) on a generated
\* or sample group, and the if/else on success: main returns 1 and
\* send_sample calls sys.exit(1) when it failed; main goes on to its next
\* example and returns 0 after the last, send_sample falls through
SiteStreamOne ==
    /\ pc = "try"
    /\ site \in {"main", "send_sample"}
    /\ \E r \in ValidRecords : StreamGroupData(r)
    /\ ops' = ops + 1
    /\ IF ~last'.ok
       THEN /\ pc' = AfterTry(IF site = "main" THEN "return" ELSE "sysexit")
            /\ exitCode' = 1
       ELSE IF site = "main" /\ ops' < MainExamples
       THEN /\ pc' = "try"
            /\ UNCHANGED exitCode
       ELSE /\ pc' = AfterTry(IF site = "main" THEN "return"
                                                ELSE "fallthrough")
            /\ exitCode' = 0
    /\ UNCHANGED <<environment, streamer, batch, idx, results, writes, base,
                   closeCalls, closeLog, site, perm, midArg>>

\* a statement of the body other than the streamer calls raises (the data
\* generator, open, json.load, len, join): except Exception runs, main
\* returns 1, the commands call sys.exit(1)
SiteRaise ==
    /\ pc = "try"
    /\ pc' = AfterTry("except")
    /\ exitCode' = 1
    /\ UNCHANGED <<environment, streamer, msgs, flushes, nextUuid, batch, idx,
                   results, writes, last, base, closeCalls, closeLog, ops,
                   site, perm, midArg>>

\* results = streamer.stream_batch_data(...): send_sample passes the dumps
\* of generated groups, send_file whatever the JSON file holds
SiteBatchStart ==
    /\ pc = "try"
    /\ site \in {"send_sample", "send_file"}
    /\ \E b \in Batches :
         /\ site = "send_sample" => \A i \in 1..Len(b) : Validates(b[i])
         /\ BatchStart(b)
    /\ pc' = "batch"
    /\ ops' = ops + 1
    /\ UNCHANGED <<environment, streamer, msgs, flushes, nextUuid,
                   closeCalls, closeLog, site, exitCode, perm, midArg>>

\* an iteration of the call; an exception that leaves stream_batch_data is
\* caught by except Exception of the command, which calls sys.exit(1)
SiteBatchStep ==
    /\ pc = "batch"
    /\ BatchStep
    /\ IF last'.raised
       THEN /\ pc' = AfterTry("except")
            /\ exitCode' = 1
       ELSE /\ pc' = "batch"
            /\ UNCHANGED exitCode
    /\ UNCHANGED <<environment, streamer, batch, base, closeCalls, closeLog,
                   ops, site, perm, midArg>>

\* the call returns, the counts are printed, the body falls through
SiteBatchReturn ==
    /\ pc = "batch"
    /\ BatchReturn
    /\ pc' = AfterTry("fallthrough")
    /\ exitCode' = 0
    /\ UNCHANGED <<environment, streamer, msgs, flushes, nextUuid, batch, idx,
                   results, writes, base, closeCalls, closeLog, ops, site,
                   perm, midArg>>

\* finally: streamer.close()
SiteFinally ==
    /\ pc = "finally"
    /\ Close
    /\ pc' = "done"
    /\ UNCHANGED <<environment, streamer, nextUuid, batch, idx, results,
                   writes, last, base, ops, site, exitCode, perm, midArg>>

NextSites ==
    \/ SiteCli
    \/ SiteConstruct
    \/ SiteStreamOne
    \/ SiteRaise
    \/ SiteBatchStart
    \/ SiteBatchStep
    \/ SiteBatchReturn
    \/ SiteFinally

SpecSites == InitSites /\ [][NextSites]_vars

\* --------------------------- SpecProducer: a caller of the producer class
\* A caller that builds a streamer and makes up to MaxOps publishing calls,
\* on the streamer or directly on its GroupLoadKafkaProducer.
InitProducer ==
    /\ InitCommon
    /\ site = "producer"
    /\ pc = "start"
    /\ perm = NoPerm

NextProducer ==
    \/ ApiConstruct
    \/ ApiStreamGroupData
    \/ ApiProduceGroupMessage
    \/ ApiProduceBatchMessages

SpecProducer == InitProducer /\ [][NextProducer]_vars

\* ------------------------ SpecMembers: records with unusual member lists
\* A caller that builds a streamer and makes one stream_batch_data call on
\* records which are well-formed apart from their members field: a normal list, an empty list, a list in which two members
\* share a member_id, no members key.
MaxMemberBatch == 3     \* longest batch of such records

MemberRecords ==
    { Rec(TRUE, "g1", TRUE, "ok"),
      Rec(TRUE, "g2", TRUE, "empty"),
      Rec(TRUE, "g1", TRUE, "dup"),
      Rec(TRUE, "g2", TRUE, "missing") }

MemberBatches == UNION { [1..n -> MemberRecords] : n \in 0..MaxMemberBatch }

InitMembers ==
    /\ InitCommon
    /\ site = "members"
    /\ pc = "start"
    /\ perm = NoPerm

\* the one stream_batch_data call of the behaviour
MembersBatchStart ==
    /\ pc = "idle"
    /\ ops = 0
    /\ \E b \in MemberBatches : BatchStart(b)
    /\ pc' = "batch"
    /\ ops' = ops + 1
    /\ UNCHANGED <<environment, streamer, msgs, flushes, nextUuid,
                   closeCalls, closeLog, site, exitCode, perm, midArg>>

NextMembers ==
    \/ ApiConstruct
    \/ MembersBatchStart
    \/ ApiBatchStep
    \/ ApiBatchReturn

SpecMembers == InitMembers /\ [][NextMembers]_vars

\* ------------------- SpecPerm: stream_batch_data on a batch and a reordering
\* the outcome of produce_group_message in which the record's own message
\* ends as status st and the older messages are left as they are
OutcomeFor(ms, topic, env, r, mid, st) ==
    CHOOSE o \in PublishAttempts(ms, topic, env, r, mid) :
        Validates(r) =>
            /\ o.msgs[Len(ms) + 1].status = st
            /\ \A i \in 1..Len(ms) : o.msgs[i] = ms[i]

\* the loop of stream_batch_data from position i on, with the broker
\* treating record r as beh[r] says
RECURSIVE RunBatch(_, _, _, _, _, _)
RunBatch(b, i, run, topic, env, beh) ==
    IF i > Len(b) THEN run
    ELSE LET r == b[i]
             o == OutcomeFor(run.msgs, topic, env, r,
                             MessageId(NoArg, Len(run.msgs) + 1),
                             IF Validates(r) THEN beh[r] ELSE "rejected")
             it == IterResult(run.results, r, o.ret)
         IN  IF it.raised
             THEN [run EXCEPT !.raised = TRUE, !.msgs = o.msgs]
             ELSE RunBatch(b, i + 1,
                           [msgs |-> o.msgs, results |-> it.results,
                            raised |-> FALSE],
                           topic, env, beh)

\* stream_batch_data(b) on a fresh streamer
StreamBatchData(b, topic, env, beh) ==
    RunBatch(b, 1, [msgs |-> <<>>, results |-> EmptyMap, raised |-> FALSE],
             topic, env, beh)

Reorder(b, p) == [i \in 1..Len(b) |-> b[p[i]]]

\* the inputs: a batch, a permutation of its positions, and how the broker
\* treats each valid record
InitPerm ==
    /\ InitCommon
    /\ site = "perm"
    /\ pc = "idle"
    /\ \E b \in Batches, beh \in [ValidRecords -> Statuses] :
       \E p \in Permutations(1..Len(b)) :
         perm = [done |-> FALSE, a |-> b, p |-> p, beh |-> beh]

\* run stream_batch_data on the batch and on its permutation, the broker
\* behaving the same for each record
PermRun ==
    /\ ~perm.done
    /\ LET t == CurrentTopic(environment)
           b == Reorder(perm.a, perm.p)
       IN  perm' = [done |-> TRUE, a |-> perm.a, b |-> b,
                    runA |-> StreamBatchData(perm.a, t, environment,
                                             perm.beh),
                    runB |-> StreamBatchData(b, t, environment, perm.beh)]
    /\ UNCHANGED <<environment, streamer, msgs, flushes, nextUuid, pc, batch,
                   idx, results, writes, last, base, closeCalls, closeLog,
                   ops, site, exitCode, midArg>>

NextPerm == PermRun

SpecPerm == InitPerm /\ [][NextPerm]_vars

\* ------------------------------------------------------------- properties
ValidCount(b, n) == Cardinality({ i \in 1..n : Validates(b[i]) })

BatchReturned == pc = "idle" /\ last.op = "stream_batch_data" /\ ~last.raised

\* C1: for a valid record stream_group_data returns True if and only if the
\* broker acknowledged the record's message by the time the call returned;
\* it returns False when the flush timed out with the message still
\* pending, and when the delivery callback reported a failure.
StreamOneTrueIffAcked ==
    (last.op = "stream_group_data" /\ last.valid)
        => (last.ok <=> last.status = "acked")

\* C2: a batch of N records of which M fail validation returns a mapping
\* with exactly N entries, the entries of the M invalid records are False,
\* and the client received exactly N-M produce calls.
BatchCounts ==
    BatchReturned =>
        /\ Cardinality(DOMAIN results) = Len(batch)
        /\ \A i \in 1..Len(batch) :
              ~Validates(batch[i]) =>
                  /\ RawKey(batch[i]) \in DOMAIN results
                  /\ results[RawKey(batch[i])] = FALSE
        /\ Len(msgs) - base = ValidCount(batch, Len(batch))

\* C3: stream_batch_data never aborts: whatever the elements are, no
\* exception leaves the call, and when it is over every element has been
\* processed.
BatchNeverAborts ==
    (pc = "idle" /\ last.op = "stream_batch_data")
        => (~last.raised /\ idx = Len(batch) + 1)

\* C4: once close() has returned the publisher is closed for good: no later
\* call hands a message to the broker client, and a later
\* stream_group_data call returns False.
ClosedIsTerminal ==
    closeCalls >= 1 =>
        /\ Len(msgs) = closeLog.msgs
        /\ (last.op = "stream_group_data" /\ last.msg > closeLog.msgs)
              => ~last.ok

\* C5: a record that failed validation never reaches the publisher: every
\* produce call carries a record that validated, a stream_group_data call
\* that produced had a valid record, and a batch call has made at most as
\* many produce calls as it has validated records.
InvalidNeverPublished ==
    /\ \A i \in 1..Len(msgs) : Validates(msgs[i].rec)
    /\ (last.op = "stream_group_data" /\ last.msg > 0) => last.valid
    /\ pc = "batch" =>
          Len(msgs) - base <= ValidCount(batch, IF idx > Len(batch)
                                                THEN Len(batch) ELSE idx - 1)
    /\ BatchReturned => Len(msgs) - base <= ValidCount(batch, Len(batch))

\* a batch with an invalid and a valid record has returned, and the valid
\* one was produced
InvalidNeverPublishedWitness ==
    /\ BatchReturned
    /\ \E i \in 1..Len(batch) : ~Validates(batch[i])
    /\ Len(msgs) > base

\* C6: the key written for a record is the record's own group_id when it
\* validated and "unknown" when it did not and its group_id cannot be read;
\* "unknown" is written in no other case, no other key is ever written, and
\* each record is written at most once.
KeyOfRecord ==
    /\ \A j \in 1..Len(writes) :
          LET r == batch[writes[j].i] IN
          /\ Validates(r) => writes[j].key = r.gid
          /\ (~Validates(r) /\ r.gid = GidAbsent) => writes[j].key = Sentinel
          /\ writes[j].key \in {r.gid, Sentinel}
          /\ writes[j].key = Sentinel => (~Validates(r) /\ r.gid = GidAbsent)
    /\ \A j, k \in 1..Len(writes) : j < k => writes[j].i < writes[k].i
    /\ DOMAIN results = { writes[j].key : j \in 1..Len(writes) }

\* a batch has returned in which one record was written under its own
\* group_id and another, invalid one under its raw group_id or the sentinel
KeyOfRecordWitness ==
    /\ BatchReturned
    /\ \E j, k \in 1..Len(writes) :
          /\ Validates(batch[writes[j].i])
          /\ ~Validates(batch[writes[k].i])
          /\ writes[j].key \in GroupIds

\* C8: close() on a closed streamer is a no-op: it performs no further
\* operation on the broker client, so close() has flushed at most once.
CloseIdempotent == closeLog.flushes <= 1

\* C10: the active environment is dev or qa and nothing else, also after an
\* assignment to the config object; dev resolves to the dev topic and qa to
\* the qa topic, and a streamer's topic was resolved from dev or qa.
OnlyDeclaredEnvironments ==
    /\ environment \in DeclaredEnvs
    /\ environment = "dev" => CurrentTopic(environment) = DevTopic
    /\ environment = "qa" => CurrentTopic(environment) = QaTopic
    /\ streamer.made => streamer.env \in DeclaredEnvs

\* the keys a returned mapping maps to True
TrueKeys(res) == { k \in DOMAIN res : res[k] }

\* C7: reordering a batch does not change the set of keys mapped to True,
\* the broker behaving the same for each record.
ReorderingKeepsSuccesses ==
    (perm.done /\ ~perm.runA.raised /\ ~perm.runB.raised)
        => TrueKeys(perm.runA.results) = TrueKeys(perm.runB.results)

KeyIsGivenMessageId ==
    /\ \A i \in 1..Len(msgs) : msgs[i].key = Utf8(msgs[i].mid)
    /\ last.op = "produce_group_message" =>
          IF midArg.given THEN msgs[last.msg].mid = midArg.s
                          ELSE msgs[last.msg].mid \in GeneratedIds

\* C11 as amended: the key of every message is the UTF-8 encoding of the
\* message_id in its envelope; a non-empty identifier given by the caller is
\* used unchanged; with None or the empty string one is generated.
KeyIsMessageId ==
    /\ \A i \in 1..Len(msgs) : msgs[i].key = Utf8(msgs[i].mid)
    /\ last.op = "produce_group_message" =>
          IF midArg.given /\ midArg.s # <<>>
          THEN msgs[last.msg].mid = midArg.s
          ELSE msgs[last.msg].mid \in GeneratedIds

\* a direct call was given an identifier outside ASCII, and the message it
\* produced is keyed by the two bytes of that identifier's encoding
KeyIsMessageIdWitness ==
    /\ last.op = "produce_group_message"
    /\ midArg = Given(<<"eacute">>)
    /\ msgs[last.msg].mid = midArg.s
    /\ msgs[last.msg].key = <<195, 169>>

\* C12: when close() has returned and nothing was produced since, no
\* message handed to the broker client earlier is still pending, and the
\* publisher no longer holds the client.
CloseFlushesAndReleases ==
    (closeCalls >= 1 /\ Len(msgs) = closeLog.msgs)
        => (PendingIdx(msgs) = {} /\ ~streamer.client)

\* the records of the produce calls made since the batch call started
ProducedSince(b) == SubSeq([j \in 1..Len(msgs) |-> msgs[j].rec], b + 1,
                           Len(msgs))

\* C13: stream_batch_data works through the batch in input order, one
\* record at a time: while it runs, the produce calls made so far are the
\* valid records of the prefix already processed, in order; when it is over,
\* the produce calls are exactly the valid records of the batch in input
\* order, one call each; the result map is written in input order.
SequentialInOrder ==
    /\ pc = "batch" =>
          ProducedSince(base) =
              SelectSeq(SubSeq(batch, 1, idx - 1), Validates)
    /\ (pc = "idle" /\ last.op = "stream_batch_data") =>
          ProducedSince(base) = SelectSeq(batch, Validates)
    /\ \A j, k \in 1..Len(writes) : j < k => writes[j].i < writes[k].i

\* C14: every message is sent to the topic that config binds to the
\* environment written in its envelope, whatever the order of assignments to
\* config.environment, construction and publishing.
TopicMatchesEnvelope ==
    \A i \in 1..Len(msgs) : msgs[i].topic = CurrentTopic(msgs[i].env)

\* the record is well-formed apart from what its member list holds: it may
\* be empty or repeat a member_id
WellFormedButMembers(r) ==
    r.map /\ r.gid \in GroupIds /\ r.req /\ r.members \in {"ok", "empty", "dup"}

\* C15: a record that is well-formed but has an empty member list, or two
\* members with one member_id, is treated as any valid record: each such
\* record the batch call has processed was handed to the broker client, and
\* was written under its group_id with True unless produce() raised.
OddMembersPublished ==
       (pc = "batch" \/ (pc = "idle" /\ last.op = "stream_batch_data")) =>
          \A i \in 1..(idx - 1) :
             WellFormedButMembers(batch[i]) =>
                LET k == base + Cardinality({ h \in 1..i :
                                    WellFormedButMembers(batch[h]) })
                IN  /\ k <= Len(msgs)
                    /\ msgs[k].rec = batch[i]
                    /\ \E j \in 1..Len(writes) :
                          /\ writes[j].i = i
                          /\ writes[j].key = batch[i].gid
                          /\ writes[j].val = (msgs[k].status # "rejected")

\* a batch of three whose second record has an empty member list and whose
\* third repeats a member_id has returned; all three were handed to the
\* broker client and every entry written is True
OddMembersPublishedWitness ==
    /\ pc = "idle"
    /\ last.op = "stream_batch_data"
    /\ ~last.raised
    /\ Len(batch) = 3
    /\ batch[1].members = "ok"
    /\ batch[2].members = "empty"
    /\ batch[3].members = "dup"
    /\ Len(msgs) = base + 3
    /\ \A j \in 1..Len(writes) : writes[j].val

====
